---- MODULE Spec2Model ----
(***************************************************************************)
(* Change-aware backup (scripts/backup_library.py, the producer) and       *)
(* mirrored restore (scripts/restore_backup.py, the consumer) of the       *)
(* configured Calibre libraries through one shared backup directory.       *)
(*                                                                         *)
(* A library tree is abstracted to a version number: two trees have the    *)
(* same number exactly when they list the same (path, size, mtime)         *)
(* records; SpecFingerprint models the tree and the walk over it in full.  *)
(* A file of the backup directory is a record: a state file is             *)
(* [exists, text], an archive is [name, content, complete] where complete =  *)
(* FALSE is what a write that raised left behind.  Producer and consumer   *)
(* runs are serialized (one starts only when the other is not running).    *)
(***************************************************************************)
EXTENDS Integers, Sequences, FiniteSets, TLC

\* ------------------------------------------------------------------ config

LIBRARIES == <<"books", "manga">>
MAX_RECENT_BACKUPS == 1
MAX_MONTHLY_SNAPSHOTS == 12

Prefixes == {LIBRARIES[i] : i \in 1..Len(LIBRARIES)}

\* ------------------------------------------------------------------ bounds

MaxTime == 2        \* the wall clock runs over the moments 0..MaxTime
SecsPerMonth == 2   \* a month of the model lasts this many moments
MaxFaults == 1      \* I/O errors raised in one behaviour
MaxEdits == 1       \* edits of the producer's libraries in one behaviour
MaxKeep == 2        \* SpecPrune: retention limits 0..MaxKeep
FirstPruneMon == 9   \* SpecPrune: the first of the three months of its archives
MaxSize == 2        \* SpecFingerprint: file sizes 1..MaxSize
MaxTick == 2        \* SpecFingerprint: mtimes 0..MaxTick, in ticks
TicksPerSec == 2    \* SpecFingerprint: ticks of st_mtime in one second

\* The versions a library tree can go through.
Versions == 1..(MaxEdits + 1)

\* datetime.datetime.now() at moment t: the calendar month and the position
\* within it.
Now(t) == [mon |-> 1 + t \div SecsPerMonth, sec |-> t % SecsPerMonth]

VARIABLES
    maxRecent,    \* MAX_RECENT_BACKUPS as configured
    maxMonthly,   \* MAX_MONTHLY_SNAPSHOTS as configured
    clock,        \* the wall clock: a moment in 0..MaxTime
    prodDirs,     \* prefixes whose library root exists on the producer
    prodLib,      \* prefix -> version of the producer's library tree
    backupDir,    \* BACKUP_DIR exists
    prodState,    \* prefix -> <prefix>_library_state.txt
    consState,    \* prefix -> <prefix>_library_last_restored_state.txt
    files,        \* the archives in BACKUP_DIR
    consLib,      \* prefix -> the consumer's library directory
    service,      \* the Docker container: "running" or "stopped"
    ppc,          \* producer main(): position
    pidx,         \* producer main(): index into LIBRARIES
    latest_backup,\* main(): local latest_backup, NoBackup or <<name>>
    prun,         \* what the current producer run has done (observation)
    cpc,          \* consumer main(): position
    cidx,         \* consumer main(): index into LIBRARIES
    any_restored, \* consumer main(): local any_restored
    remote_state, \* consumer main(): local remote_state
    crun,         \* what the current consumer run has done (observation)
    faults,       \* I/O errors raised so far
    edits,        \* edits of the producer's libraries so far
    pruneIn,      \* SpecPrune: the directory before the prune applied
    walk          \* SpecFingerprint: the tree and the digests computed of it

vars == <<maxRecent, maxMonthly, clock, prodDirs, prodLib, backupDir, prodState,
          consState, files, consLib, service, ppc, pidx, latest_backup, prun,
          cpc, cidx, any_restored, remote_state, crun, faults, edits, pruneIn, walk>>

confVars == <<maxRecent, maxMonthly, prodDirs>>
prodVars == <<ppc, pidx, prun>>
consVars == <<cpc, cidx, any_restored, remote_state, crun>>

\* ------------------------------------------------------------ state files

\* A digest d read from a file is the text <<d>>, "" is <<>>, and Python's
\* None is a value that is neither.
None == <<0>>
\* latest_backup when no archive is named.
NoBackup == <<>>
NoFile == [exists |-> FALSE, text |-> <<>>]
EmptyFile == [exists |-> TRUE, text |-> <<>>]
\* Mutant: the file is opened for writing and nothing is written.
StateFile_Blank(digest) == [exists |-> TRUE, text |-> <<>>]

\* A state file as f.write(digest) leaves it.
StateFile(digest) == [exists |-> TRUE, text |-> <<digest>>]

\* sha256 over the sorted "<rel_path>|<size>|<mtime>" records, taken as
\* collision-free: the digest names the version of the tree.
compute_library_fingerprint(tree) == tree

\* Mutant: read_state gives "" for a missing file.
read_state_MissingIsEmpty(f) == IF ~f.exists THEN <<>> ELSE IF f.text = <<>> THEN None ELSE f.text

\* Mutant: read_state without `or None`.
read_state_KeepsEmpty(f) == IF ~f.exists THEN None ELSE f.text

\* restore_backup.read_state: None for a missing file, `f.read().strip() or
\* None` for an empty one.
read_state(f) == IF ~f.exists THEN None ELSE IF f.text = <<>> THEN None ELSE f.text

\* ------------------------------------------------------------- file names

\* strftime's zero-padded two-digit field.
Pad2(n) == <<n \div 10, n % 10>>

\* "%Y-%m-%d_%H-%M-%S": the month field, a separator (below every digit, as
\* '-' and '_' never decide the order of two equally long stamps), the
\* position within the month.
Timestamp(now) == Pad2(now.mon) \o <<-1>> \o Pad2(now.sec)

\* "%Y-%m"
MonthTag(now) == Pad2(now.mon)

\* Mutant: every library's archive gets the first library's name.
RecentName_FirstPrefix(prefix, now) == [prefix |-> LIBRARIES[1], monthly |-> FALSE, stamp |-> Timestamp(now)]

\* backup_name, line 84, and monthly_name, line 108.
RecentName(prefix, now) == [prefix |-> prefix, monthly |-> FALSE, stamp |-> Timestamp(now)]
MonthlyName(prefix, now) == [prefix |-> prefix, monthly |-> TRUE, stamp |-> MonthTag(now)]

\* Python's str comparison on the stamps.
RECURSIVE LexLess(_, _)
LexLess(a, b) ==
    IF a = <<>> THEN b # <<>>
    ELSE IF b = <<>> THEN FALSE
    ELSE IF Head(a) # Head(b) THEN Head(a) < Head(b)
    ELSE LexLess(Tail(a), Tail(b))

\* list.sort() of a list of distinct names, ascending.
RECURSIVE SortNames(_)
SortNames(S) ==
    IF S = {} THEN <<>>
    ELSE LET least == CHOOSE n \in S : \A o \in S \ {n} : LexLess(n.stamp, o.stamp)
         IN <<least>> \o SortNames(S \ {least})

\* Mutant: xs[k:], which drops the newest names and keeps the oldest k.
DropLast_KeepsOldest(xs, k) == SubSeq(xs, k + 1, Len(xs))

\* xs[:-k] as Python slices it: xs[:-0] is xs[:0], the empty list.
DropLast(xs, k) == IF k = 0 THEN <<>> ELSE SubSeq(xs, 1, Len(xs) - k)

Range(xs) == {xs[i] : i \in 1..Len(xs)}

Names(fs) == {f.name : f \in fs}
FileAt(fs, name) == CHOOSE f \in fs : f.name = name

\* open(path, "w") / copy2 onto path: the path holds the new file only.
WriteFile(fs, name, content, complete) ==
    {f \in fs : f.name # name}
        \cup {[name |-> name, content |-> content, complete |-> complete]}

RemoveFiles(fs, names) == {f \in fs : f.name \notin names}

\* ------------------------------------------------------------- retention

\* prune_backups_for_prefix, lines 126-136: the names of one kind for prefix.
BackupsOf(fs, prefix, monthly) ==
    {n \in Names(fs) : n.prefix = prefix /\ n.monthly = monthly}

\* lines 139-143 and 146-150: the names one kind's loop removes.
ToDelete(fs, prefix, monthly, limit) ==
    LET sorted == SortNames(BackupsOf(fs, prefix, monthly))
    IN IF Len(sorted) > limit THEN Range(DropLast(sorted, limit)) ELSE {}

PruneRecent(fs, prefix, limit) == RemoveFiles(fs, ToDelete(fs, prefix, FALSE, limit))
PruneMonthly(fs, prefix, limit) == RemoveFiles(fs, ToDelete(fs, prefix, TRUE, limit))

prune_backups_for_prefix(fs, prefix, kRecent, kMonthly) ==
    PruneMonthly(PruneRecent(fs, prefix, kRecent), prefix, kMonthly)

\* ------------------------------------------------------------------ Init

\* The consumer's library directory: as it was before any restore, emptied by
\* clear_directory, holding an archive's content, or left half cleared or half
\* extracted by an error.
OriginalTree == [state |-> "orig", content |-> 0, complete |-> TRUE]
ClearedTree == [state |-> "cleared", content |-> 0, complete |-> TRUE]
DamagedTree == [state |-> "damaged", content |-> 0, complete |-> FALSE]
RestoredTree(f) == [state |-> "restored", content |-> f.content, complete |-> f.complete]

\* What a run has done so far, kept for the properties only: no action's
\* guard or effect on the program's state reads it.
NoProducerRun == [unchanged |-> {}, seen |-> {}, aborted |-> FALSE]

NoConsumerRun == [pending |-> {}, fresh |-> {}, stops |-> 0, starts |-> 0,
                  cleared |-> {}, seen |-> {}, failed |-> {},
                  unpacked |-> [l \in Prefixes |-> None], aborted |-> FALSE]

Init ==
    /\ maxRecent = MAX_RECENT_BACKUPS
    /\ maxMonthly = MAX_MONTHLY_SNAPSHOTS
    /\ clock = 0
    /\ prodDirs \in SUBSET Prefixes
    /\ prodLib = [l \in Prefixes |-> 1]
    /\ backupDir \in BOOLEAN
    /\ prodState = [l \in Prefixes |-> NoFile]
    /\ consState \in {[l \in Prefixes |-> f] :
                        f \in IF backupDir THEN {NoFile, EmptyFile} ELSE {NoFile}}
    /\ files = {}
    /\ consLib = [l \in Prefixes |-> OriginalTree]
    /\ service = "running"
    /\ ppc = "idle"
    /\ pidx = 1
    /\ latest_backup = NoBackup
    /\ prun = NoProducerRun
    /\ cpc = "idle"
    /\ cidx = 1
    /\ any_restored = FALSE
    /\ remote_state = None
    /\ crun = NoConsumerRun
    /\ faults = 0
    /\ edits = 0
    /\ pruneIn = <<>>
    /\ walk = <<>>

Resting(pc) == pc \in {"idle", "done"}

\* -------------------------------------------------------------- environment

\* Something edits a library on the producer's machine: between runs, or
\* between the fingerprint and the packing of that library.  (An edit at any
\* other moment changes nothing the running script still reads: it is taken
\* as made after the run.)
MutateLibrary(l) ==
    /\ Resting(cpc)
    /\ Resting(ppc) \/ (ppc = "zip" /\ l = LIBRARIES[pidx])
    /\ l \in prodDirs
    /\ edits < MaxEdits
    /\ edits' = edits + 1
    /\ \E v \in Versions \ {prodLib[l]} : prodLib' = [prodLib EXCEPT ![l] = v]
    /\ prun' = [prun EXCEPT !.unchanged = @ \ {l}]
    /\ UNCHANGED <<confVars, clock, backupDir, prodState, consState, files, consLib,
                   service, ppc, pidx, latest_backup, consVars, faults, pruneIn, walk>>

\* The wall clock moves on: between runs, or between the two
\* datetime.now() calls of one library's backup.  (At any other moment of a
\* run no script reads the clock before the next such point.)
Tick ==
    /\ Resting(cpc)
    /\ Resting(ppc) \/ ppc = "monthly"
    /\ clock < MaxTime
    /\ clock' = clock + 1
    /\ UNCHANGED <<confVars, prodLib, backupDir, prodState, consState, files, consLib,
                   service, prodVars, latest_backup, consVars, faults, edits, pruneIn, walk>>

\* ----------------------------------------------------------------- producer

\* The library's current fingerprint is the stored producer fingerprint.
StoredIsCurrent(l) ==
    prodState[l] = [exists |-> TRUE, text |-> <<prodLib[l]>>]

\* Mutant: the stored fingerprint is never found equal (every run backs up).
LibraryUnchanged_Never(prefix) == FALSE

\* has_library_changed, lines 64-72: the stored fingerprint is the current one.
LibraryUnchanged(prefix) ==
    /\ prodState[prefix].exists
    /\ prodState[prefix].text = <<compute_library_fingerprint(prodLib[prefix])>>

\* backup_library.main, line 154: ensure_backup_dir, then the loop begins.
ProducerStart ==
    /\ Resting(ppc) /\ Resting(cpc)
    /\ backupDir' = TRUE
    /\ ppc' = "check"
    /\ pidx' = 1
    /\ latest_backup' = NoBackup
    /\ prun' = [NoProducerRun EXCEPT !.unchanged = {l \in prodDirs : StoredIsCurrent(l)}]
    /\ cpc' = "idle"
    /\ cidx' = 1
    /\ any_restored' = FALSE
    /\ remote_state' = None
    /\ crun' = NoConsumerRun
    /\ UNCHANGED <<confVars, clock, prodLib, prodState, consState, files, consLib,
                   service, faults, edits, pruneIn, walk>>

\* The for loop moves to the next library, or line 169 ends the run.
ProducerAdvance ==
    /\ UNCHANGED faults
    /\ pidx' = pidx + 1
    /\ ppc' = IF pidx < Len(LIBRARIES) THEN "check" ELSE "done"

\* An exception leaves main: the run is over.
ProducerRaise ==
    /\ faults < MaxFaults
    /\ faults' = faults + 1
    /\ ppc' = "done"
    /\ pidx' = pidx
    /\ prun' = [prun EXCEPT !.aborted = TRUE, !.seen = @ \cup {LIBRARIES[pidx]}]

\* main lines 156-163 with has_library_changed: skip a missing root, skip an
\* unchanged library, else write the new fingerprint (which may raise before
\* the file is opened, or after open(..., "w") has truncated it).
ProducerCheck ==
    /\ ppc = "check"
    /\ LET prefix == LIBRARIES[pidx] IN
        \/ /\ prefix \notin prodDirs
           /\ ProducerAdvance
           /\ prun' = [prun EXCEPT !.seen = @ \cup {prefix}]
           /\ UNCHANGED prodState
        \/ /\ prefix \in prodDirs
           /\ LibraryUnchanged(prefix)
           /\ ProducerAdvance
           /\ prun' = [prun EXCEPT !.seen = @ \cup {prefix}]
           /\ UNCHANGED prodState
        \/ /\ prefix \in prodDirs
           /\ ~LibraryUnchanged(prefix)
           /\ prodState' = [prodState EXCEPT
                 ![prefix] = StateFile(compute_library_fingerprint(prodLib[prefix]))]
           /\ ppc' = "zip"
           /\ UNCHANGED <<pidx, faults>>
           /\ prun' = [prun EXCEPT !.seen = @ \cup {prefix}]
        \/ /\ prefix \in prodDirs
           /\ ~LibraryUnchanged(prefix)
           /\ \/ UNCHANGED prodState
              \/ prodState' = [prodState EXCEPT ![prefix] = EmptyFile]
           /\ ProducerRaise
    /\ UNCHANGED <<confVars, clock, prodLib, backupDir, consState, files, consLib,
                   service, latest_backup, consVars, edits, pruneIn, walk>>

\* create_backup_zip: the tree as it is now goes into <prefix>_library_<now>.zip;
\* a write that raises leaves no file or a broken one.
ProducerZip ==
    /\ ppc = "zip"
    /\ LET prefix == LIBRARIES[pidx]
           name == RecentName(prefix, Now(clock)) IN
        \/ /\ files' = WriteFile(files, name, prodLib[prefix], TRUE)
           /\ latest_backup' = <<name>>
           /\ ppc' = "monthly"
           /\ UNCHANGED <<pidx, prun, faults>>
        \/ /\ \/ UNCHANGED files
              \/ files' = WriteFile(files, name, prodLib[prefix], FALSE)
           /\ UNCHANGED latest_backup
           /\ ProducerRaise
    /\ UNCHANGED <<confVars, clock, prodLib, backupDir, prodState, consState, consLib,
                   service, consVars, edits, pruneIn, walk>>

\* Mutant: the monthly snapshot is copied whether or not one exists.
ensure_monthly_snapshot_Overwrites(fs, prefix, latest, now) ==
    WriteFile(fs, MonthlyName(prefix, now),
              FileAt(fs, latest).content, FileAt(fs, latest).complete)

\* ensure_monthly_snapshot(prefix, latest_backup_path) on the directory fs at `now`.
ensure_monthly_snapshot(fs, prefix, latest, now) ==
    IF MonthlyName(prefix, now) \notin Names(fs)
    THEN WriteFile(fs, MonthlyName(prefix, now),
                   FileAt(fs, latest).content, FileAt(fs, latest).complete)
    ELSE fs

\* main line 166; copy2 may raise, leaving no monthly file or a broken one.
ProducerMonthly ==
    /\ ppc = "monthly"
    /\ LET prefix == LIBRARIES[pidx]
           name == MonthlyName(prefix, Now(clock)) IN
        \/ /\ files' = ensure_monthly_snapshot(files, prefix, latest_backup[1], Now(clock))
           /\ ppc' = "prune"
           /\ UNCHANGED <<pidx, prun, faults>>
        \/ /\ name \notin Names(files)
           /\ \/ UNCHANGED files
              \/ files' = WriteFile(files, name, FileAt(files, latest_backup[1]).content, FALSE)
           /\ ProducerRaise
    /\ UNCHANGED <<confVars, clock, prodLib, backupDir, prodState, consState, consLib,
                   service, latest_backup, consVars, edits, pruneIn, walk>>

\* main line 167; listdir or a remove of the first loop may raise (nothing
\* removed yet), or a remove of the second (the recent ones are gone).
ProducerPrune ==
    /\ ppc = "prune"
    /\ LET prefix == LIBRARIES[pidx] IN
        \/ /\ files' = prune_backups_for_prefix(files, prefix, maxRecent, maxMonthly)
           /\ ProducerAdvance
           /\ UNCHANGED prun
        \/ /\ \/ UNCHANGED files
              \/ /\ ToDelete(PruneRecent(files, prefix, maxRecent), prefix, TRUE, maxMonthly) # {}
                 /\ files' = PruneRecent(files, prefix, maxRecent)
           /\ ProducerRaise
    /\ UNCHANGED <<confVars, clock, prodLib, backupDir, prodState, consState, consLib,
                   service, latest_backup, consVars, edits, pruneIn, walk>>

\* ----------------------------------------------------------------- consumer

\* Mutant: candidates[0], the oldest name.
find_latest_non_monthly_backup_Oldest(fs, prefix) ==
    LET candidates == {n \in Names(fs) : n.prefix = prefix /\ ~n.monthly}
        sorted == SortNames(candidates)
    IN IF candidates = {} THEN NoBackup ELSE <<sorted[1]>>

\* find_latest_non_monthly_backup: nothing, or the last of the sorted candidates.
find_latest_non_monthly_backup(fs, prefix) ==
    LET candidates == {n \in Names(fs) : n.prefix = prefix /\ ~n.monthly}
        sorted == SortNames(candidates)
    IN IF candidates = {} THEN NoBackup ELSE <<sorted[Len(sorted)]>>

\* A state file that is missing or empty.
Absent(f) == ~f.exists \/ f.text = <<>>

\* Producer state present and different from the consumer state.
Pending(l) ==
    /\ ~Absent(prodState[l])
    /\ Absent(consState[l]) \/ consState[l].text # prodState[l].text

\* Producer state present, consumer state absent or empty, a recent archive exists.
Fresh(l) ==
    /\ ~Absent(prodState[l])
    /\ Absent(consState[l])
    /\ \E n \in Names(files) : n.prefix = l /\ ~n.monthly

\* restore_backup.main, lines 134-138.
ConsumerStart ==
    /\ Resting(ppc) /\ Resting(cpc)
    /\ cpc' = IF backupDir THEN "compare" ELSE "done"
    /\ cidx' = 1
    /\ any_restored' = FALSE
    /\ remote_state' = None
    /\ latest_backup' = NoBackup
    /\ crun' = [NoConsumerRun EXCEPT !.pending = {l \in Prefixes : Pending(l)},
                                      !.fresh = {l \in Prefixes : Fresh(l)}]
    /\ ppc' = "idle"
    /\ pidx' = 1
    /\ prun' = NoProducerRun
    /\ UNCHANGED <<confVars, clock, prodLib, backupDir, prodState, consState, files,
                   consLib, service, faults, edits, pruneIn, walk>>

\* `continue`, or the loop is over and line 177 is next.
ConsumerAdvance ==
    /\ UNCHANGED faults
    /\ cidx' = cidx + 1
    /\ cpc' = IF cidx < Len(LIBRARIES) THEN "compare" ELSE "finish"

\* Mutant: the state is written on the way out of a failed restore as well.
ConsumerRaise_Records ==
    /\ faults < MaxFaults
    /\ faults' = faults + 1
    /\ cpc' = "done"
    /\ crun' = [crun EXCEPT !.aborted = TRUE, !.failed = @ \cup {LIBRARIES[cidx]}]
    /\ consState' = [consState EXCEPT
          ![LIBRARIES[cidx]] = [exists |-> TRUE, text |-> remote_state]]
    /\ UNCHANGED <<cidx, any_restored, remote_state, latest_backup, service>>

\* An exception leaves main: the run is over.
ConsumerRaise ==
    /\ faults < MaxFaults
    /\ faults' = faults + 1
    /\ cpc' = "done"
    /\ crun' = [crun EXCEPT !.aborted = TRUE, !.failed = @ \cup {LIBRARIES[cidx]}]
    /\ UNCHANGED <<cidx, any_restored, remote_state, latest_backup, consState, service>>

\* stop_calibre_container: docker stop.
stop_calibre_container == service' = "stopped"

\* start_calibre_container: docker start.
start_calibre_container == service' = "running"

\* Mutant: the two states are never found equal.
StateMatches_Never(local_state, remote) == FALSE

\* main, line 153: local_state == remote_state.
StateMatches(local_state, remote) == local_state = remote

\* main, lines 141-161: read both states, skip or find the library pending and
\* stop the container if nothing has been restored so far.
ConsumerCompare ==
    /\ cpc = "compare"
    /\ LET prefix == LIBRARIES[cidx]
           remote == read_state(prodState[prefix])
           local_state == read_state(consState[prefix]) IN
        \/ /\ remote = None
           /\ ConsumerAdvance
           /\ crun' = [crun EXCEPT !.seen = @ \cup {prefix}]
           /\ UNCHANGED <<remote_state, service>>
        \/ /\ remote # None
           /\ StateMatches(local_state, remote)
           /\ ConsumerAdvance
           /\ crun' = [crun EXCEPT !.seen = @ \cup {prefix}]
           /\ UNCHANGED <<remote_state, service>>
        \/ /\ remote # None
           /\ ~StateMatches(local_state, remote)
           /\ remote_state' = remote
           /\ IF ~any_restored
              THEN /\ stop_calibre_container
                   /\ crun' = [crun EXCEPT !.seen = @ \cup {prefix}, !.stops = @ + 1]
              ELSE /\ UNCHANGED service
                   /\ crun' = [crun EXCEPT !.seen = @ \cup {prefix}]
           /\ cpc' = "find"
           /\ UNCHANGED <<cidx, faults>>
    /\ UNCHANGED <<confVars, clock, prodLib, backupDir, prodState, consState, files,
                   consLib, prodVars, latest_backup, any_restored, edits, pruneIn, walk>>

\* main, lines 163-166.
ConsumerFind ==
    /\ cpc = "find"
    /\ LET found == find_latest_non_monthly_backup(files, LIBRARIES[cidx]) IN
        /\ latest_backup' = found
        /\ IF found = NoBackup
           THEN /\ ConsumerAdvance
                /\ crun' = [crun EXCEPT !.failed = @ \cup {LIBRARIES[cidx]}]
           ELSE /\ cpc' = "clear"
                /\ UNCHANGED <<cidx, faults, crun>>
    /\ UNCHANGED <<confVars, clock, prodLib, backupDir, prodState, consState, files,
                   consLib, service, prodVars, any_restored, remote_state, edits, pruneIn, walk>>

\* restore_library_from_backup, line 100: clear_directory; an error leaves the
\* directory as it was (makedirs, listdir) or partly removed.
ConsumerClear ==
    /\ cpc = "clear"
    /\ LET prefix == LIBRARIES[cidx] IN
        \/ /\ consLib' = [consLib EXCEPT ![prefix] = ClearedTree]
           /\ crun' = [crun EXCEPT !.cleared = @ \cup {prefix}]
           /\ cpc' = "extract"
           /\ UNCHANGED <<cidx, any_restored, remote_state, latest_backup, consState,
                          service, faults>>
        \/ /\ \/ UNCHANGED consLib
              \/ consLib' = [consLib EXCEPT ![prefix] = DamagedTree]
           /\ ConsumerRaise
    /\ UNCHANGED <<confVars, clock, prodLib, backupDir, prodState, files, prodVars,
                   edits, pruneIn, walk>>

\* restore_library_from_backup, lines 103-104: extractall; an error leaves the
\* directory empty (the zip did not open) or partly written.
ConsumerExtract ==
    /\ cpc = "extract"
    /\ LET prefix == LIBRARIES[cidx] IN
        \/ /\ consLib' = [consLib EXCEPT
                 ![prefix] = RestoredTree(FileAt(files, latest_backup[1]))]
           /\ crun' = [crun EXCEPT !.unpacked[prefix] = remote_state]
           /\ cpc' = "record"
           /\ UNCHANGED <<cidx, any_restored, remote_state, latest_backup, consState,
                          service, faults>>
        \/ /\ \/ UNCHANGED consLib
              \/ consLib' = [consLib EXCEPT ![prefix] = DamagedTree]
           /\ ConsumerRaise
    /\ UNCHANGED <<confVars, clock, prodLib, backupDir, prodState, files, prodVars,
                   edits, pruneIn, walk>>

\* Mutant: the state is not written.
write_state_Lost(states, prefix, value) == states

\* write_state(path, value): the file holds value.
write_state(states, prefix, value) == [states EXCEPT ![prefix] = [exists |-> TRUE, text |-> value]]

\* main, lines 172-175.
ConsumerRecord ==
    /\ cpc = "record"
    /\ consState' = write_state(consState, LIBRARIES[cidx], remote_state)
    /\ any_restored' = TRUE
    /\ ConsumerAdvance
    /\ UNCHANGED <<confVars, clock, prodLib, backupDir, prodState, files, consLib,
                   service, prodVars, latest_backup, remote_state, crun, edits, pruneIn, walk>>

\* main, lines 177-183.
ConsumerFinish ==
    /\ cpc = "finish"
    /\ IF any_restored
       THEN /\ start_calibre_container
            /\ crun' = [crun EXCEPT !.starts = @ + 1]
       ELSE UNCHANGED <<service, crun>>
    /\ cpc' = "done"
    /\ UNCHANGED <<confVars, clock, prodLib, backupDir, prodState, consState, files,
                   consLib, prodVars, latest_backup, cidx, any_restored, remote_state,
                   faults, edits, pruneIn, walk>>

Consumer ==
    \/ ConsumerStart
    \/ ConsumerCompare
    \/ ConsumerFind
    \/ ConsumerClear
    \/ ConsumerExtract
    \/ ConsumerRecord
    \/ ConsumerFinish

Producer == ProducerStart \/ ProducerCheck \/ ProducerZip \/ ProducerMonthly \/ ProducerPrune

Next ==
    \/ \E l \in Prefixes : MutateLibrary(l)
    \/ Tick
    \/ Producer
    \/ Consumer

Spec == Init /\ [][Next]_vars

\* The producer's machine alone: the behaviours of Spec in which the
\* consumer never runs.  (No consumer step writes anything a producer step
\* reads.)
NextProducer ==
    \/ \E l \in Prefixes : MutateLibrary(l)
    \/ Tick
    \/ Producer

SpecProducer == Init /\ [][NextProducer]_vars

\* The consumer's machine and what feeds it: the behaviours of Spec that fit
\* in one second of the wall clock.  (restore_backup.py reads no clock; the
\* time enters its input only through the archives' names.)
NextConsumer ==
    \/ \E l \in Prefixes : MutateLibrary(l)
    \/ Producer
    \/ Consumer

SpecConsumer == Init /\ [][NextConsumer]_vars

\* ------------------------------------------------- retention, on its own

\* The archives SpecPrune starts from: for the first library any of the
\* seconds of three months and any of the three monthlies, for the others one
\* recent archive and one monthly.
PruneMons == FirstPruneMon..(FirstPruneMon + 2)
PruneTimes == [mon : PruneMons, sec : 0..(SecsPerMonth - 1)]
PruneNames ==
    {RecentName(LIBRARIES[1], t) : t \in PruneTimes}
        \cup {MonthlyName(LIBRARIES[1], t) : t \in PruneTimes}
        \cup {RecentName(l, [mon |-> FirstPruneMon, sec |-> 0]) : l \in Prefixes}
        \cup {MonthlyName(l, [mon |-> FirstPruneMon, sec |-> 0]) : l \in Prefixes}

InitPrune ==
    /\ maxRecent \in 0..MaxKeep
    /\ maxMonthly \in 0..MaxKeep
    /\ clock = 0
    /\ prodDirs = Prefixes
    /\ prodLib = [l \in Prefixes |-> 1]
    /\ backupDir = TRUE
    /\ prodState = [l \in Prefixes |-> NoFile]
    /\ consState = [l \in Prefixes |-> NoFile]
    /\ \E ns \in SUBSET PruneNames :
          files = {[name |-> n, content |-> 1, complete |-> TRUE] : n \in ns}
    /\ consLib = [l \in Prefixes |-> OriginalTree]
    /\ service = "running"
    /\ ppc = "idle"
    /\ pidx = 1
    /\ latest_backup = NoBackup
    /\ prun = NoProducerRun
    /\ cpc = "idle"
    /\ cidx = 1
    /\ any_restored = FALSE
    /\ remote_state = None
    /\ crun = NoConsumerRun
    /\ faults = 0
    /\ edits = 0
    /\ pruneIn = <<>>
    /\ walk = <<>>

\* prune_backups_for_prefix(prefix) applied to the directory.
PruneApply(prefix) ==
    /\ pruneIn = <<>>
    /\ pruneIn' = <<[prefix |-> prefix, before |-> files]>>
    /\ files' = prune_backups_for_prefix(files, prefix, maxRecent, maxMonthly)
    /\ UNCHANGED <<confVars, clock, prodLib, backupDir, prodState, consState, consLib,
                   service, prodVars, latest_backup, consVars, faults, edits, walk>>

NextPrune == \E prefix \in Prefixes : PruneApply(prefix)

SpecPrune == InitPrune /\ [][NextPrune]_vars

\* ------------------------------------------- archive selection, on its own

\* Consumer runs over any backup directory SpecPrune starts from, every
\* library with a producer state and no consumer state yet.
InitFind ==
    /\ maxRecent = MAX_RECENT_BACKUPS
    /\ maxMonthly = MAX_MONTHLY_SNAPSHOTS
    /\ clock = 0
    /\ prodDirs = Prefixes
    /\ prodLib = [l \in Prefixes |-> 1]
    /\ backupDir = TRUE
    /\ prodState = [l \in Prefixes |-> StateFile(compute_library_fingerprint(1))]
    /\ consState = [l \in Prefixes |-> NoFile]
    /\ \E ns \in SUBSET PruneNames :
          files = {[name |-> n, content |-> 1, complete |-> TRUE] : n \in ns}
    /\ consLib = [l \in Prefixes |-> OriginalTree]
    /\ service = "running"
    /\ ppc = "idle"
    /\ pidx = 1
    /\ latest_backup = NoBackup
    /\ prun = NoProducerRun
    /\ cpc = "idle"
    /\ cidx = 1
    /\ any_restored = FALSE
    /\ remote_state = None
    /\ crun = NoConsumerRun
    /\ faults = 0
    /\ edits = 0
    /\ pruneIn = <<>>
    /\ walk = <<>>

SpecFind == InitFind /\ [][Consumer]_vars

\* ------------------------------------------------ fingerprint, on its own

\* The paths a library tree of SpecFingerprint may hold, relative to the
\* library root: <<n>> is the n-th file name at the root, <<d, n>> the n-th
\* file name in the d-th sub-directory (names numbered in str order).  Two
\* files share the root, each sub-directory holds one.
TreePaths == {<<1>>, <<2>>, <<1, 1>>, <<2, 1>>}
EntryNames == {1, 2}

\* A file as os.stat finds it: st_size and st_mtime, the latter in ticks of
\* 1/TicksPerSec second.  A file that vanishes between the listing and the
\* stat (lines 40-44) is a file the tree does not hold.
TreeFile(path, size, mtime) == [path |-> path, size |-> size, mtime |-> mtime]
TreeFiles == {TreeFile(p, s, t) : p \in TreePaths, s \in 1..MaxSize, t \in 0..MaxTick}
PathsOf(tree) == {f.path : f \in tree}
FileOf(tree, path) == CHOOSE f \in tree : f.path = path

\* The orders in which the operating system may list a directory's entries.
Perms(S) == {p \in [1..Cardinality(S) -> S] : \A i, j \in 1..Cardinality(S) : p[i] = p[j] => i = j}
ListDir(S, osorder) == SelectSeq(osorder, LAMBDA x : x \in S)

\* Mutant: the list is left as the operating system returned it.
sort_Skipped(xs) == xs

\* list.sort() (lines 36-37) of a list of distinct names.
RECURSIVE sort(_)
sort(xs) ==
    IF xs = <<>> THEN <<>>
    ELSE LET least == CHOOSE x \in Range(xs) : \A y \in Range(xs) : x <= y
         IN <<least>> \o sort(SelectSeq(xs, LAMBDA x : x # least))

\* Mutant: the record leaves the size out.
entry_NoSize(f) == <<f.path, 0, f.mtime \div TicksPerSec>>

\* Lines 45-49: the record "<rel_path>|<size>|<int(st_mtime)>\n" of a file.
entry(f) == <<f.path, f.size, f.mtime \div TicksPerSec>>

\* Lines 38-50 for one (root, dirs, files) of os.walk: the records of the
\* files of directory dir (<<>> is the library root) in the order of `names`.
RECURSIVE RecordsOf(_, _, _)
RecordsOf(tree, dir, names) ==
    IF names = <<>> THEN <<>>
    ELSE <<entry(FileOf(tree, dir \o <<Head(names)>>))>> \o RecordsOf(tree, dir, Tail(names))

\* os.walk, top down: the root's files, then each sub-directory in the order
\* the caller left `dirs` in.
RECURSIVE WalkDirs(_, _, _)
WalkDirs(tree, dirs, osorder) ==
    IF dirs = <<>> THEN <<>>
    ELSE LET d == Head(dirs)
             files_ == ListDir({p[2] : p \in {q \in PathsOf(tree) : Len(q) = 2 /\ q[1] = d}}, osorder)
         IN RecordsOf(tree, <<d>>, sort(files_)) \o WalkDirs(tree, Tail(dirs), osorder)

\* compute_library_fingerprint(library_dir), lines 32-52, on the tree listed
\* in the order osorder: what the hasher was fed (sha256 taken as
\* collision-free, so the digest is this sequence).
hexdigest(tree, osorder) ==
    LET files_ == ListDir({p[1] : p \in {q \in PathsOf(tree) : Len(q) = 1}}, osorder)
        dirs == ListDir({p[1] : p \in {q \in PathsOf(tree) : Len(q) = 2}}, osorder)
    IN RecordsOf(tree, <<>>, sort(files_)) \o WalkDirs(tree, sort(dirs), osorder)

InitFingerprint ==
    /\ maxRecent = MAX_RECENT_BACKUPS
    /\ maxMonthly = MAX_MONTHLY_SNAPSHOTS
    /\ clock = 0
    /\ prodDirs = Prefixes
    /\ prodLib = [l \in Prefixes |-> 1]
    /\ backupDir = TRUE
    /\ prodState = [l \in Prefixes |-> NoFile]
    /\ consState = [l \in Prefixes |-> NoFile]
    /\ files = {}
    /\ consLib = [l \in Prefixes |-> OriginalTree]
    /\ service = "running"
    /\ ppc = "idle"
    /\ pidx = 1
    /\ latest_backup = NoBackup
    /\ prun = NoProducerRun
    /\ cpc = "idle"
    /\ cidx = 1
    /\ any_restored = FALSE
    /\ remote_state = None
    /\ crun = NoConsumerRun
    /\ faults = 0
    /\ edits = 0
    /\ pruneIn = <<>>
    /\ \E ps \in SUBSET TreePaths :
          walk = [tree |-> {TreeFile(p, 1, 0) : p \in ps}, runs |-> <<>>]

\* Something adds a file, removes one, or writes one (new size, new mtime).
EditTree ==
    /\ edits < MaxEdits
    /\ edits' = edits + 1
    /\ \/ \E f \in TreeFiles :
             /\ f.path \notin PathsOf(walk.tree)
             /\ walk' = [walk EXCEPT !.tree = @ \cup {f}]
       \/ \E f \in walk.tree : walk' = [walk EXCEPT !.tree = @ \ {f}]
       \/ \E f \in walk.tree : \E s \in (1..MaxSize) \ {f.size} :
             walk' = [walk EXCEPT !.tree = (@ \ {f}) \cup {TreeFile(f.path, s, f.mtime)}]
       \/ \E f \in walk.tree : \E t \in (0..MaxTick) \ {f.mtime} :
             walk' = [walk EXCEPT !.tree = (@ \ {f}) \cup {TreeFile(f.path, f.size, t)}]
    /\ UNCHANGED <<confVars, clock, prodLib, backupDir, prodState, consState, files,
                   consLib, service, prodVars, latest_backup, consVars, faults, pruneIn>>

\* compute_library_fingerprint runs over the tree, the operating system
\* listing every directory in the order osorder.
FingerprintCall ==
    /\ Len(walk.runs) < 2
    /\ \E osorder \in Perms(EntryNames) :
          walk' = [walk EXCEPT !.runs = Append(@, [tree |-> walk.tree,
                                                   osorder |-> osorder,
                                                   digest |-> hexdigest(walk.tree, osorder)])]
    /\ UNCHANGED <<confVars, clock, prodLib, backupDir, prodState, consState, files,
                   consLib, service, prodVars, latest_backup, consVars, faults, edits,
                   pruneIn>>

NextFingerprint == EditTree \/ FingerprintCall

SpecFingerprint == InitFingerprint /\ [][NextFingerprint]_vars

\* ------------------------------------------------------------- properties

ArchivesOf(fs, l) == {f \in fs : f.name.prefix = l}
KindOf(fs, l, monthly) == {f.name : f \in {g \in fs : g.name.prefix = l /\ g.name.monthly = monthly}}

\* The month a name encodes, and the moment a name encodes (a monthly: its month).
MonthOf(n) == n.stamp[1] * 10 + n.stamp[2]
TimeOf(n) == IF n.monthly THEN MonthOf(n)
             ELSE MonthOf(n) * 100 + n.stamp[4] * 10 + n.stamp[5]

InProducerRun == ppc \in {"check", "zip", "monthly", "prune"}
InConsumerRun == cpc \in {"compare", "find", "clear", "extract", "record", "finish"}

\* C1: while a producer run is under way, a library whose fingerprint was the
\* stored one when the run started (and that nobody edited since) keeps its
\* archives, recent and monthly, exactly as they are and keeps its state file.
C1_ProducerIdempotence ==
    [][\A l \in Prefixes :
          (InProducerRun /\ l \in prun.unchanged) =>
              /\ ArchivesOf(files', l) = ArchivesOf(files, l)
              /\ prodState'[l] = prodState[l]]_vars

\* C1 witness: a run that processed every library has ended, and one of them was
\* unchanged from a previous run that had archived it.
C1_Witness ==
    /\ ppc = "done" /\ ~prun.aborted /\ prun.seen = Prefixes
    /\ \E l \in prun.unchanged : ArchivesOf(files, l) # {}

\* C2 (as claimed): a consumer run that issued the stop command has, when it
\* ends, issued the start command exactly once and left the service running.
C2_RestartAfterStop ==
    (cpc = "done" /\ crun.stops > 0) => (crun.starts = 1 /\ service = "running")

\* C3 (as claimed): a consumer run with a pending library issues the stop
\* command exactly once, and no directory is cleared before a stop was issued.
C3_SingleStop ==
    /\ (cpc = "done" /\ crun.pending # {}) => crun.stops = 1
    /\ crun.cleared # {} => crun.stops >= 1

\* C4 (as claimed): when a consumer run ends, every library configured after one
\* whose restore failed (no recent archive, or an error raised by the clearing
\* or the extraction) has been processed.
C4_SiblingsProcessed ==
    cpc = "done" =>
        \A i \in 1..Len(LIBRARIES) : \A j \in (i + 1)..Len(LIBRARIES) :
            LIBRARIES[i] \in crun.failed => LIBRARIES[j] \in crun.seen

C6_NoOpSafety ==
    [][(InConsumerRun /\ crun.pending = {}) =>
          /\ consLib' = consLib
          /\ consState' = consState
          /\ prodState' = prodState
          /\ service' = service
          /\ crun'.stops = 0 /\ crun'.starts = 0]_vars

\* C6 witness: such a run has ended over every library, one of them in sync
\* after an earlier restore.
C6_Witness ==
    /\ cpc = "done" /\ crun.pending = {} /\ crun.seen = Prefixes
    /\ \E l \in Prefixes : ~Absent(prodState[l]) /\ consState[l] = prodState[l]

\* C7: after prune_backups_for_prefix with a limit K >= 1 for a kind, at most K
\* artifacts of that kind remain for the library, and they are exactly those
\* with fewer than K newer artifacts of the kind before the prune.
C7_RetentionBound ==
    pruneIn # <<>> =>
        \A monthly \in BOOLEAN :
            LET l == pruneIn[1].prefix
                K == IF monthly THEN maxMonthly ELSE maxRecent
                was == KindOf(pruneIn[1].before, l, monthly)
                left == KindOf(files, l, monthly)
            IN K >= 1 =>
                /\ Cardinality(left) <= K
                /\ left = {n \in was :
                              Cardinality({o \in was : TimeOf(o) > TimeOf(n)}) < K}

\* C7 witness: three recent archives, MAX_RECENT = 1, and the prune left one.
C7_Witness ==
    /\ pruneIn # <<>>
    /\ maxRecent = 1
    /\ Cardinality(KindOf(pruneIn[1].before, pruneIn[1].prefix, FALSE)) = 3
    /\ Cardinality(KindOf(files, pruneIn[1].prefix, FALSE)) = 1

\* C8: a library never has two monthly artifacts of one calendar month, and a
\* monthly artifact is written only in a step before which the library had
\* none for the current month.
C8_MonthlyUniqueness ==
    /\ [](\A l \in Prefixes : \A m \in 1..Now(MaxTime).mon :
             Cardinality({n \in KindOf(files, l, TRUE) : MonthOf(n) = m}) <= 1)
    /\ [][\A f \in files' :
             (f.name.monthly /\ f \notin files) =>
                 /\ MonthOf(f.name) = Now(clock).mon
                 /\ \A n \in KindOf(files, f.name.prefix, TRUE) :
                        MonthOf(n) # Now(clock).mon]_vars

\* C8 witness: a second backup of a changed library in a month whose monthly
\* artifact holds the earlier content.
C8_Witness ==
    \E l \in Prefixes :
        /\ ppc = "prune" /\ LIBRARIES[pidx] = l
        /\ \E f \in ArchivesOf(files, l) :
              /\ f.name.monthly /\ MonthOf(f.name) = Now(clock).mon
              /\ f.content # FileAt(files, latest_backup[1]).content

\* C9 (as claimed): when a producer run ends, every configured library has been
\* processed, whatever failed on the way.
C9_AllLibrariesProcessed ==
    ppc = "done" => prun.seen = Prefixes

\* C10 (as claimed): when a consumer run that raised no error ends, every
\* library that started with a producer state, no consumer state and a recent
\* archive has been restored, its consumer state is the producer state, and the
\* run issued one stop and one start.
C10_AbsentStateRestores ==
    (cpc = "done" /\ ~crun.aborted) =>
        \A l \in crun.fresh :
            /\ consLib[l].state = "restored"
            /\ consState[l].text = prodState[l].text
            /\ crun.stops = 1
            /\ crun.starts = 1

\* The records of a tree at the resolution the digest keeps: whole seconds.
WholeSeconds(tree) == {[path |-> f.path, size |-> f.size, sec |-> f.mtime \div TicksPerSec] : f \in tree}

\* C11: two computations of the fingerprint over the same tree (same files,
\* sizes and mtimes) give the same digest, in whatever order the operating
\* system listed the directories each time.
C11_FingerprintDeterminism ==
    \A i, j \in 1..Len(walk.runs) :
        walk.runs[i].tree = walk.runs[j].tree => walk.runs[i].digest = walk.runs[j].digest

\* C11 witness: the fingerprint was computed twice over an unchanged tree with
\* two files at the root and two sub-directories, listed in different orders.
C11_Witness ==
    /\ Len(walk.runs) = 2
    /\ walk.runs[1].tree = walk.runs[2].tree
    /\ PathsOf(walk.runs[1].tree) = TreePaths
    /\ walk.runs[1].osorder # walk.runs[2].osorder

\* C12 (as claimed): two computations give the same digest exactly when no
\* file was added, removed, resized or given another mtime, at the resolution
\* of st_mtime, in between.
C12_Sensitivity ==
    \A i, j \in 1..Len(walk.runs) :
        (walk.runs[i].digest = walk.runs[j].digest) <=> (walk.runs[i].tree = walk.runs[j].tree)

\* C12 (amended): two computations give the same digest exactly when the two
\* trees hold the same files with the same sizes and the same mtimes in whole
\* seconds.
C12_SensitivityWholeSeconds ==
    \A i, j \in 1..Len(walk.runs) :
        (walk.runs[i].digest = walk.runs[j].digest)
            <=> (WholeSeconds(walk.runs[i].tree) = WholeSeconds(walk.runs[j].tree))

\* C12 witness: between two computations one file was resized (same path, same
\* mtime), and the digests differ.
C12_Witness ==
    /\ Len(walk.runs) = 2
    /\ walk.runs[1].digest # walk.runs[2].digest
    /\ \E f \in walk.runs[1].tree : \E g \in walk.runs[2].tree :
          /\ f.path = g.path /\ f.mtime = g.mtime /\ f.size # g.size
          /\ walk.runs[1].tree \ {f} = walk.runs[2].tree \ {g}

\* The recent archives of l, whole or broken.
RecentOf(fs, l) == {f \in fs : f.name.prefix = l /\ ~f.name.monthly}

\* C13: a producer run that finds a library changed writes the library's
\* current fingerprint into the producer state in the step before packing,
\* and a recent archive is written only by the packing step that follows; and
\* a run that starts with the stored fingerprint current and no archive of the
\* library (the earlier run stopped in between) creates none.
C13_PersistBeforeArchive ==
    /\ [][\A l \in Prefixes :
             /\ (ppc = "check" /\ ppc' = "zip" /\ LIBRARIES[pidx] = l) =>
                    /\ prodState'[l] = [exists |-> TRUE, text |-> <<prodLib[l]>>]
                    /\ prodState[l] # prodState'[l]
                    /\ files' = files
             /\ RecentOf(files', l) \ RecentOf(files, l) # {} =>
                    /\ ppc = "zip" /\ LIBRARIES[pidx] = l
                    /\ prodState[l].exists /\ prodState[l].text # <<>>
                    /\ prodState'[l] = prodState[l]]_vars
    /\ [][\A l \in Prefixes :
             (InProducerRun /\ l \in prun.unchanged /\ ArchivesOf(files, l) = {}) =>
                 ArchivesOf(files', l) = {}]_vars

\* C13 witness: a run has ended that processed every library, one of them with
\* its fingerprint stored by an earlier run that stopped before packing it:
\* the library is still without any archive.
C13_Witness ==
    /\ ppc = "done" /\ ~prun.aborted /\ prun.seen = Prefixes
    /\ \E l \in prun.unchanged : StoredIsCurrent(l) /\ ArchivesOf(files, l) = {}

\* C14 (as claimed): whenever a library's consumer state is present and equal
\* to its producer state, the consumer's directory holds what was last
\* unpacked into it, and that is the whole of the producer's tree of the
\* stored fingerprint.
C14_MirrorConsistency ==
    \A l \in Prefixes :
        (~Absent(consState[l]) /\ consState[l] = prodState[l]) =>
            /\ consLib[l].state = "restored"
            /\ consLib[l].complete
            /\ consLib[l].content = prodState[l].text[1]

\* C15: a step taken while a library's consumer state is present and equal to
\* its producer state (a restore of that fingerprint has succeeded) leaves the
\* library's directory and its consumer state as they are.
C15_NeverActTwice ==
    [][\A l \in Prefixes :
          (~Absent(consState[l]) /\ consState[l] = prodState[l]) =>
              /\ consLib'[l] = consLib[l]
              /\ consState'[l] = consState[l]]_vars

\* C15 witness: a run has ended that found a library restored by an earlier
\* run in sync and left it alone, while it restored another one.
C15_Witness ==
    /\ cpc = "done" /\ ~crun.aborted /\ crun.seen = Prefixes
    /\ \E l \in Prefixes \ crun.pending : \E k \in crun.pending :
          /\ consLib[l].state = "restored" /\ consState[l] = prodState[l]
          /\ crun.unpacked[k] # None

\* C16: a library's consumer state changes only in the step that follows the
\* completed extraction of that library; and when a run ends, a library that
\* was pending at its start and whose restore was skipped for a missing
\* archive, or raised while clearing or extracting, is still pending.
C16_StateAfterUnpack ==
    /\ [][\A l \in Prefixes :
             consState'[l] # consState[l] =>
                 /\ cpc = "record" /\ LIBRARIES[cidx] = l
                 /\ crun.unpacked[l] # None
                 /\ consLib[l].state = "restored"]_vars
    /\ [](cpc = "done" => \A l \in crun.pending \cap crun.failed : Pending(l))

\* C16 witness: a run has ended whose restore of a pending library raised after
\* the clearing had begun; the library is still pending.
C16_Witness ==
    /\ cpc = "done" /\ crun.aborted
    /\ \E l \in crun.pending \cap crun.failed :
          /\ consLib[l].state \in {"cleared", "damaged"}
          /\ Pending(l)

\* C17: the step that looks for a library's archive names the recent archive
\* of that library with the greatest encoded timestamp and goes on to restore
\* from it; it names nothing exactly when the library has no recent archive,
\* and then moves to the next library with no directory or state touched.
C17_NewestRecentSelected ==
    [][cpc = "find" =>
          LET l == LIBRARIES[cidx]
              recent == KindOf(files, l, FALSE)
          IN /\ recent = {} =>
                    /\ latest_backup' = NoBackup
                    /\ cpc' \in {"compare", "finish"}
                    /\ consLib' = consLib /\ consState' = consState
             /\ recent # {} =>
                    /\ Len(latest_backup') = 1
                    /\ latest_backup'[1] \in recent
                    /\ \A o \in recent : TimeOf(o) <= TimeOf(latest_backup'[1])
                    /\ cpc' = "clear"]_vars

\* C17 witness: an archive was selected for a library that has several recent
\* archives, a monthly one of a later month, and a neighbour with its own.
C17_Witness ==
    /\ cpc = "clear"
    /\ LET l == LIBRARIES[cidx] IN
          /\ Cardinality(KindOf(files, l, FALSE)) >= 3
          /\ \E n \in KindOf(files, l, TRUE) : MonthOf(n) > MonthOf(latest_backup[1])
          /\ \E k \in Prefixes \ {l} : KindOf(files, k, FALSE) # {}

\* C18 (as claimed): for a limit K >= 0 of a kind, prune_backups_for_prefix
\* deletes exactly the artifacts of the kind that are not among the K newest:
\* max(0, n - K) of n, none when n <= K, all of them when K = 0.
C18_PruneExactness ==
    pruneIn # <<>> =>
        \A monthly \in BOOLEAN :
            LET l == pruneIn[1].prefix
                K == IF monthly THEN maxMonthly ELSE maxRecent
                was == KindOf(pruneIn[1].before, l, monthly)
                left == KindOf(files, l, monthly)
                n == Cardinality(was)
            IN /\ left \subseteq was
               /\ was \ left = {a \in was :
                                   Cardinality({o \in was : TimeOf(o) > TimeOf(a)}) >= K}
               /\ Cardinality(was \ left) = IF n > K THEN n - K ELSE 0

\* C19: a step of a producer or consumer run that is processing one library
\* leaves every other library's archives, producer state, consumer state and
\* consumer directory as they are, and names none of its archives.
C19_PerLibraryOwnership ==
    [][\A k \in Prefixes :
          (\/ InProducerRun /\ LIBRARIES[pidx] # k
           \/ InConsumerRun /\ cpc # "finish" /\ LIBRARIES[cidx] # k) =>
              /\ ArchivesOf(files', k) = ArchivesOf(files, k)
              /\ prodState'[k] = prodState[k]
              /\ consState'[k] = consState[k]
              /\ consLib'[k] = consLib[k]
              /\ \/ latest_backup' = latest_backup
                 \/ latest_backup' = NoBackup
                 \/ latest_backup'[1].prefix # k]_vars

\* C19 witness: one consumer run has restored every library, each from its own
\* archive, the libraries holding different trees.
C19_Witness ==
    /\ cpc = "done" /\ ~crun.aborted
    /\ \A l \in Prefixes :
          /\ crun.unpacked[l] # None
          /\ consLib[l].state = "restored"
          /\ \E f \in RecentOf(files, l) : f.content = consLib[l].content
    /\ \E l, k \in Prefixes : consLib[l].content # consLib[k].content

\* C20: while a consumer run is under way, a library whose producer state file
\* is missing or empty keeps its directory and its consumer state; the step
\* that reads its states issues no stop and moves on to the next library, or
\* to the end of the loop.
C20_AbsentProducerSkipped ==
    [][\A l \in Prefixes :
          (InConsumerRun /\ Absent(prodState[l])) =>
              /\ consLib'[l] = consLib[l]
              /\ consState'[l] = consState[l]
              /\ (cpc = "compare" /\ LIBRARIES[cidx] = l) =>
                    /\ service' = service
                    /\ crun'.stops = crun.stops
                    /\ cidx' = cidx + 1
                    /\ cpc' = IF cidx < Len(LIBRARIES) THEN "compare" ELSE "finish"]_vars

\* C20 witness: a run has ended that skipped a library whose producer state
\* file is empty and restored the library after it.
C20_Witness ==
    /\ cpc = "done" /\ ~crun.aborted /\ crun.seen = Prefixes
    /\ \E l, k \in Prefixes :
          /\ prodState[l] = EmptyFile /\ consLib[l] = OriginalTree
          /\ crun.unpacked[k] # None

====
